---- MODULE Spec2Model ----
(***************************************************************************)
(* Risk and feed-health guard of the trading bot:                          *)
(*   core/loss_cluster.py       LossClusterTracker                         *)
(*   monitoring/data_quality.py DataQualityMonitor, _timeframe_ms          *)
(*   core/state.py, core/global_state.py  GlobalState and its singletons   *)
(*                                                                         *)
(* Tracker time is counted in minutes (timedelta(minutes=...)), monitor    *)
(* time in seconds (time.time()) and candle timestamps in milliseconds.    *)
(* Strings are sequences of one-character strings, so that slicing,        *)
(* parsing and key formatting are computed as the code computes them.      *)
(***************************************************************************)
EXTENDS Integers, Sequences, FiniteSets, TLC

VARIABLES
    losses,          \* LossClusterTracker._losses: deque of LossEvent, oldest first
    cooldown_until,  \* LossClusterTracker._cooldown_until: None or a time
    utcnow,          \* the wall clock read by datetime.utcnow(), in minutes
    call,            \* the tracker call made at this clock value, if any: operation, arguments, result
    trigger,         \* history: timestamp of the last loss that reached pause_losses
    last_loss,       \* history: timestamp of the last loss recorded
    recorded,        \* history: number of losses (pnl < 0) recorded so far
    enabled,         \* DataQualityMonitor.enabled
    last_alert,      \* DataQualityMonitor._last_alert: dict from key to time of last alert
    clock,           \* the wall clock read by time.time(), in seconds
    status,          \* what the evaluate call made at this clock value returned (or raised)
    dq_call,         \* that evaluate call: its arguments and the values it computed
    alert_log,       \* history: per key, the clock values of the calls that returned alert=True
    _state,          \* core/global_state.py: the module-level _state, None or an object
    objects,         \* the heap: the GlobalState and LossClusterTracker objects constructed
    state_ref,       \* per task, the GlobalState it got from get_global_state()
    lc_ref,          \* per task, the tracker it got from loss_cluster()
    via_refs         \* history: number of losses recorded through the tasks' references

trackerVars == <<losses, cooldown_until, utcnow, call, trigger, last_loss, recorded>>

monitorVars == <<enabled, last_alert, clock, status, dq_call, alert_log>>

stateVars == <<_state, objects, state_ref, lc_ref, via_refs>>

vars == <<trackerVars, monitorVars, stateVars>>

(***************************************************************************)
(* Bounds of the model.                                                    *)
(***************************************************************************)
MaxTick == 4         \* tracker clock and timestamps range over 0, 10, .., 10*MaxTick minutes
MaxLosses == 4       \* losses recorded in one behaviour
MaxClockTick == 7    \* monitor clock ranges over 0, 600, .., 600*MaxClockTick seconds
MaxCandles == 3      \* candles in one batch
MaxTfLen == 2        \* characters of a timeframe string in SpecTf
NumTasks == 3        \* tasks sharing the process state
MaxObjects == 4      \* objects constructed in one behaviour

(***************************************************************************)
(* LossClusterTracker                                                      *)
(***************************************************************************)
None == -1

window_minutes == 30
throttle_losses == 2
pause_losses == 3
cooldown_minutes == 20

\* self.window / self.cooldown: timedelta(minutes=...), here in minutes
window == window_minutes
cooldown == cooldown_minutes

\* the multipliers 0.25 and 1.0, in hundredths
Reduced == 25
Full == 100

Times == {10 * i : i \in 0..MaxTick}
Pnls == {-5, 0, 5}

LossEvent(ts, pnl) == [ts |-> ts, pnl |-> pnl]

\* _prune: pop from the left while the oldest event is older than window
RECURSIVE _prune_ge(_, _)
_prune_ge(q, now) ==
    IF Len(q) > 0 /\ now - q[1].ts >= window
    THEN _prune_ge(Tail(q), now)
    ELSE q

RECURSIVE _prune(_, _)
_prune(q, now) ==
    IF Len(q) > 0 /\ now - q[1].ts > window
    THEN _prune(Tail(q), now)
    ELSE q

\* should_pause(): cooldown set and the clock strictly before it
should_pause_le == cooldown_until # None /\ utcnow <= cooldown_until
should_pause_or == cooldown_until = None \/ utcnow < cooldown_until
should_pause == cooldown_until # None /\ utcnow < cooldown_until

\* throttle_multiplier()
throttle_multiplier_gt == IF Len(losses) > throttle_losses THEN Reduced ELSE Full
throttle_multiplier_eq == IF Len(losses) = throttle_losses THEN Reduced ELSE Full
throttle_multiplier == IF Len(losses) >= throttle_losses THEN Reduced ELSE Full

\* record_loss, "if pnl >= 0: return"
ignored_gt(pnl) == pnl > 0
ignored(pnl) == pnl >= 0

\* record_loss, "if len(self._losses) >= self.pause_losses"
pause_reached(n) == n >= pause_losses

\* record_loss, "ts + self.cooldown"
expiry_from_clock(ts) == utcnow + cooldown
expiry(ts) == ts + cooldown

\* record_loss past the early return: append, prune, arm the cooldown
Recorded_clears(q, until, pnl, ts) ==
    LET kept == _prune(Append(q, LossEvent(ts, pnl)), ts)
    IN  [losses |-> kept,
         cooldown_until |-> IF pause_reached(Len(kept)) THEN expiry(ts) ELSE None]

Recorded(q, until, pnl, ts) ==
    LET kept == _prune(Append(q, LossEvent(ts, pnl)), ts)
    IN  [losses |-> kept,
         cooldown_until |-> IF pause_reached(Len(kept)) THEN expiry(ts) ELSE until]

\* record_loss(pnl, ts): ts = None stands for the omitted argument
record_loss(pnl, ts) ==
    /\ pnl < 0 => recorded < MaxLosses
    /\ IF ignored(pnl)
       THEN /\ UNCHANGED <<losses, cooldown_until, trigger, last_loss, recorded>>
            /\ call' = [op |-> "record_loss", pnl |-> pnl, ts |-> ts, eff |-> None,
                        ret |-> None]
       ELSE LET t == IF ts = None THEN utcnow ELSE ts
                after == Recorded(losses, cooldown_until, pnl, t)
            IN  /\ losses' = after.losses
                /\ cooldown_until' = after.cooldown_until
                /\ trigger' = IF pause_reached(Len(after.losses)) THEN t ELSE trigger
                /\ last_loss' = t
                /\ recorded' = recorded + 1
                /\ call' = [op |-> "record_loss", pnl |-> pnl, ts |-> ts, eff |-> t,
                            ret |-> None]
    /\ UNCHANGED utcnow
    /\ UNCHANGED <<monitorVars, stateVars>>

RecordLoss == \E pnl \in Pnls, ts \in Times \cup {None} : record_loss(pnl, ts)

ShouldPause_prunes ==
    /\ call' = [op |-> "should_pause", pnl |-> 0, ts |-> None, eff |-> None,
                ret |-> IF should_pause THEN 1 ELSE 0]
    /\ losses' = _prune(losses, utcnow)
    /\ UNCHANGED <<cooldown_until, utcnow, trigger, last_loss, recorded>>
    /\ UNCHANGED <<monitorVars, stateVars>>

ShouldPause ==
    /\ call' = [op |-> "should_pause", pnl |-> 0, ts |-> None, eff |-> None,
                ret |-> IF should_pause THEN 1 ELSE 0]
    /\ UNCHANGED <<losses, cooldown_until, utcnow, trigger, last_loss, recorded>>
    /\ UNCHANGED <<monitorVars, stateVars>>

ThrottleMultiplier ==
    /\ call' = [op |-> "throttle_multiplier", pnl |-> 0, ts |-> None, eff |-> None,
                ret |-> throttle_multiplier]
    /\ UNCHANGED <<losses, cooldown_until, utcnow, trigger, last_loss, recorded>>
    /\ UNCHANGED <<monitorVars, stateVars>>

NoCall == [op |-> "none", pnl |-> 0, ts |-> None, eff |-> None, ret |-> None]

\* the wall clock advances between calls
Tick ==
    /\ utcnow < 10 * MaxTick
    /\ utcnow' = utcnow + 10
    /\ call' = NoCall
    /\ UNCHANGED <<losses, cooldown_until, trigger, last_loss, recorded>>
    /\ UNCHANGED <<monitorVars, stateVars>>

TrackerInit ==
    /\ losses = <<>>
    /\ cooldown_until = None
    /\ utcnow = 0
    /\ call = NoCall
    /\ trigger = None
    /\ last_loss = None
    /\ recorded = 0

(***************************************************************************)
(* DataQualityMonitor                                                      *)
(***************************************************************************)
alert_interval_sec == 1800

\* gap_multiplier = 1.4 and stale_multiplier = 2.0, in tenths
gap_multiplier_tenths == 14
stale_multiplier_tenths == 20

default_ms == 300000

Digits == <<"0", "1", "2", "3", "4", "5", "6", "7", "8", "9">>
IsDigit(c) == \E i \in 1..10 : Digits[i] = c
DigitValue(c) == (CHOOSE i \in 1..10 : Digits[i] = c) - 1

RECURSIVE DigitsValue(_)
DigitsValue(s) ==
    IF Len(s) = 0 THEN 0
    ELSE 10 * DigitsValue(SubSeq(s, 1, Len(s) - 1)) + DigitValue(s[Len(s)])

AllDigits(s) == Len(s) > 0 /\ \A i \in 1..Len(s) : IsDigit(s[i])

\* int(text) for text over letters, digits, ":" and the signs: an optional sign
\* followed by one or more digits parses, anything else is a ValueError
IntParses(s) ==
    IF Len(s) > 0 /\ s[1] \in {"-", "+"} THEN AllDigits(Tail(s)) ELSE AllDigits(s)
IntValue(s) ==
    IF s[1] = "-" THEN 0 - DigitsValue(Tail(s))
    ELSE IF s[1] = "+" THEN DigitsValue(Tail(s))
    ELSE DigitsValue(s)

Returns(v) == [exc |-> "none", value |-> v]
Raises(e) == [exc |-> e, value |-> 0]

\* _timeframe_ms(timeframe): timeframe[-1] is read before the try block
_timeframe_ms(timeframe) ==
    IF Len(timeframe) = 0 THEN Raises("IndexError")
    ELSE LET unit == timeframe[Len(timeframe)]
             head == SubSeq(timeframe, 1, Len(timeframe) - 1)
         IN  IF ~IntParses(head) THEN Returns(default_ms)
             ELSE IF unit = "s" THEN Returns(IntValue(head) * 1000)
             ELSE IF unit = "m" THEN Returns(IntValue(head) * 60000)
             ELSE IF unit = "h" THEN Returns(IntValue(head) * 3600000)
             ELSE IF unit = "d" THEN Returns(IntValue(head) * 86400000)
             ELSE Returns(default_ms)

\* f"{symbol}:{timeframe}"
Key(symbol, timeframe) == symbol \o <<":">> \o timeframe

\* self._last_alert.get(key, 0)
LastAlert(key) == IF key \in DOMAIN last_alert THEN last_alert[key] ELSE 0

\* d[key] = value on a dict
Store(d, key, value) == [k \in DOMAIN d \cup {key} |-> IF k = key THEN value ELSE d[k]]

\* _should_alert, "self._last_alert[key] = now"
NotMarked(key, now) == last_alert
Marked(key, now) == Store(last_alert, key, now)

\* _should_alert, "now - last >= self.alert_interval_sec"
Due(now, last) == now - last >= alert_interval_sec

\* _should_alert(key): the pair of its result and the map it leaves
_should_alert_marks(key) ==
    LET now == clock
        last == LastAlert(key)
    IN  IF Due(now, last)
        THEN [alert |-> TRUE, map |-> Marked(key, now)]
        ELSE [alert |-> FALSE, map |-> Marked(key, now)]
_should_alert(key) ==
    LET now == clock
        last == LastAlert(key)
    IN  IF Due(now, last)
        THEN [alert |-> TRUE, map |-> Marked(key, now)]
        ELSE [alert |-> FALSE, map |-> last_alert]

\* evaluate, "if not self.enabled or len(ohlcv) < 2: return None"
NoStatusAnd(ohlcv) == ~enabled /\ Len(ohlcv) < 2
NoStatus(ohlcv) == ~enabled \/ Len(ohlcv) < 2

\* history kept with every call: the alerts the key had before it
AlertsOf(key) == IF key \in DOMAIN alert_log THEN alert_log[key] ELSE <<>>
Logged(key, now) == Store(alert_log, key, Append(AlertsOf(key), now))

CallOf(symbol, timeframe, ohlcv, expected) ==
    [op |-> "evaluate", symbol |-> symbol, timeframe |-> timeframe,
     key |-> Key(symbol, timeframe), n |-> Len(ohlcv), ohlcv |-> ohlcv,
     expected |-> expected, prior |-> AlertsOf(Key(symbol, timeframe))]

\* evaluate, "gap_ms = last_ts - prev_ts", of the last two rows
GapMsWidest(ohlcv) ==
    LET gaps == {ohlcv[i + 1] - ohlcv[i] : i \in 1..(Len(ohlcv) - 1)}
    IN  CHOOSE g \in gaps : \A h \in gaps : h <= g
GapMs(ohlcv) == ohlcv[Len(ohlcv)] - ohlcv[Len(ohlcv) - 1]

\* expected_ms * 1.4 is an IEEE-754 double product. expected_ms is a multiple
\* of 10 here, so the exact product is the integer (expected_ms / 10) * 14; of
\* the intervals that timeframes of up to three characters over TfAlphabet
\* produce, the double product lies just below it for 11s, 11m and 1d, and an
\* integer is then above the double as soon as it reaches the exact product.
GapProductRoundsBelow == {11000, 660000, 86400000}

\* evaluate, "gap_ms > expected_ms * self.gap_multiplier"
GapDetected(gap_ms, expected_ms) ==
    LET exact == (expected_ms \div 10) * gap_multiplier_tenths
    IN  IF expected_ms \in GapProductRoundsBelow
        THEN gap_ms >= exact
        ELSE gap_ms > exact

\* evaluate, "(now_ms - last_ts) > expected_ms * self.stale_multiplier": the
\* product with 2.0 is exact
Stale(age_ms, expected_ms) ==
    age_ms > (expected_ms \div 10) * stale_multiplier_tenths

\* evaluate(symbol, timeframe, ohlcv) as a function of the monitor and the
\* clock: what it returns (or raises), the map it leaves and expected_ms; a
\* candle row is modelled by its first field, the timestamp in milliseconds
Outcome(symbol, timeframe, ohlcv) ==
    LET tf == _timeframe_ms(timeframe) IN
    IF NoStatus(ohlcv)
    THEN [status |-> [kind |-> "None"], map |-> last_alert, expected |-> None]
    ELSE IF tf.exc # "none" \/ Len(ohlcv) < 2
    THEN [status |-> [kind |-> "IndexError"], map |-> last_alert, expected |-> None]
    ELSE LET expected_ms == tf.value
             last_ts == ohlcv[Len(ohlcv)]
             gap_ms == GapMs(ohlcv)
             gap_detected == GapDetected(gap_ms, expected_ms)
             now_ms == clock * 1000
             stale == Stale(now_ms - last_ts, expected_ms)
             key == Key(symbol, timeframe)
             sa == IF gap_detected \/ stale
                   THEN _should_alert(key)
                   ELSE [alert |-> FALSE, map |-> last_alert]
         IN  [status |-> [kind |-> "status", last_ts |-> last_ts, gap_ms |-> gap_ms,
                          gap |-> gap_detected, stale |-> stale, alert |-> sa.alert],
              map |-> sa.map, expected |-> expected_ms]

evaluate(symbol, timeframe, ohlcv) ==
    LET out == Outcome(symbol, timeframe, ohlcv)
        alerted == out.status.kind = "status" /\ out.status.alert
    IN  /\ status' = out.status
        /\ last_alert' = out.map
        /\ dq_call' = CallOf(symbol, timeframe, ohlcv, out.expected)
        /\ alert_log' = IF alerted THEN Logged(Key(symbol, timeframe), clock) ELSE alert_log
        /\ UNCHANGED <<enabled, clock>>
        /\ UNCHANGED <<trackerVars, stateVars>>

\* the wall clock advances between calls
ClockTick ==
    /\ clock < 600 * MaxClockTick
    /\ clock' = clock + 600
    /\ status' = [kind |-> "none"]
    /\ dq_call' = [op |-> "none"]
    /\ UNCHANGED <<enabled, last_alert, alert_log>>
    /\ UNCHANGED <<trackerVars, stateVars>>

ClockValues == {600 * i : i \in 0..MaxClockTick}
CandleTs == {0, 100, 84000, 504100, 120960000}

RECURSIVE SeqsUpTo(_, _)
SeqsUpTo(S, n) ==
    IF n = 0 THEN {<<>>}
    ELSE LET shorter == SeqsUpTo(S, n - 1)
         IN  shorter \cup {Append(q, x) : q \in {r \in shorter : Len(r) = n - 1}, x \in S}

Batches == SeqsUpTo(CandleTs, MaxCandles)

\* the batches of the rate-limiting runs: none, one or two candles
ShortBatches == SeqsUpTo({0, 504100}, 2)

Symbols == {<<"A">>, <<"A", ":", "B">>}
Timeframes == {<<"1", "m">>, <<"B", ":", "1", "m">>, <<>>}

TfAlphabet == {"1", "-", "s", "m", "h", "d", "x"}
AllTimeframes == SeqsUpTo(TfAlphabet, MaxTfLen)

Evaluate == \E symbol \in Symbols, timeframe \in Timeframes, ohlcv \in ShortBatches :
                evaluate(symbol, timeframe, ohlcv)

\* one evaluation of a new monitor, over every timeframe string
EvaluateOnce ==
    /\ dq_call.op = "none"
    /\ \E timeframe \in AllTimeframes, ohlcv \in Batches :
           evaluate(<<"A">>, timeframe, ohlcv)

MonitorInit ==
    /\ enabled = TRUE
    /\ last_alert = <<>>
    /\ clock = 0
    /\ status = [kind |-> "none"]
    /\ dq_call = [op |-> "none"]
    /\ alert_log = <<>>

(***************************************************************************)
(* GlobalState, get_global_state and the tasks that share them             *)
(***************************************************************************)
Tasks == 1..NumTasks

\* objects are numbered in the order of their construction
Allocated == DOMAIN objects
NewId == Cardinality(Allocated) + 1

\* GlobalState(): meta is an empty dict, so meta.get("loss_cluster") is None
NewGlobalState == [type |-> "GlobalState", loss_cluster |-> None, mode |-> "paper"]

\* LossClusterTracker(): the defaults, no losses, no cooldown
NewTracker == [type |-> "LossClusterTracker", losses |-> <<>>, cooldown_until |-> None]

\* loss_cluster, "self.meta["loss_cluster"] = lc"
MetaNotStored(self, lc) == objects[self]
MetaStored(self, lc) == [objects[self] EXCEPT !.loss_cluster = lc]

\* get_global_state() called by a task
get_global_state(t) ==
    /\ IF _state = None
       THEN /\ NewId <= MaxObjects
            /\ objects' = Store(objects, NewId, NewGlobalState)
            /\ _state' = NewId
       ELSE UNCHANGED <<_state, objects>>
    /\ state_ref' = [state_ref EXCEPT ![t] = _state']
    /\ UNCHANGED <<lc_ref, via_refs>>
    /\ UNCHANGED <<trackerVars, monitorVars>>

\* state.loss_cluster() called by a task on the state it holds
loss_cluster(t) ==
    /\ state_ref[t] # None
    /\ LET self == state_ref[t]
           lc == objects[self].loss_cluster
       IN  IF lc = None
           THEN /\ NewId <= MaxObjects
                /\ objects' = Store(Store(objects, NewId, NewTracker),
                                    self, MetaStored(self, NewId))
                /\ lc_ref' = [lc_ref EXCEPT ![t] = NewId]
           ELSE /\ lc_ref' = [lc_ref EXCEPT ![t] = lc]
                /\ UNCHANGED objects
    /\ UNCHANGED <<_state, state_ref, via_refs>>
    /\ UNCHANGED <<trackerVars, monitorVars>>

\* a task records a loss on the tracker it holds: record_loss(-5, ts)
record_via(t, ts) ==
    /\ lc_ref[t] # None
    /\ via_refs < MaxLosses
    /\ LET lc == objects[lc_ref[t]]
           after == Recorded(lc.losses, lc.cooldown_until, -5, ts)
       IN  objects' = Store(objects, lc_ref[t],
                            [lc EXCEPT !.losses = after.losses,
                                       !.cooldown_until = after.cooldown_until])
    /\ via_refs' = via_refs + 1
    /\ UNCHANGED <<_state, state_ref, lc_ref>>
    /\ UNCHANGED <<trackerVars, monitorVars>>

\* main(): state.mode = os.getenv("BOT_MODE", "paper"), on the state a task holds
set_mode(t, mode) ==
    /\ state_ref[t] # None
    /\ objects' = Store(objects, state_ref[t], [objects[state_ref[t]] EXCEPT !.mode = mode])
    /\ UNCHANGED <<_state, state_ref, lc_ref, via_refs>>
    /\ UNCHANGED <<trackerVars, monitorVars>>

GetGlobalState == \E t \in Tasks : get_global_state(t)
LossCluster == \E t \in Tasks : loss_cluster(t)
RecordVia == \E t \in Tasks : record_via(t, 0)
SetMode == \E t \in Tasks, mode \in {"paper", "live"} : set_mode(t, mode)

StateInit ==
    /\ _state = None
    /\ objects = <<>>
    /\ state_ref = [t \in Tasks |-> None]
    /\ lc_ref = [t \in Tasks |-> None]
    /\ via_refs = 0

Init == TrackerInit /\ MonitorInit /\ StateInit

Next ==
    \/ RecordLoss
    \/ ShouldPause
    \/ ThrottleMultiplier
    \/ Tick

Spec == Init /\ [][Next]_vars

\* DataQualityMonitor(enabled=...) at any clock value, then evaluate calls
InitDQ ==
    /\ TrackerInit
    /\ StateInit
    /\ enabled \in BOOLEAN
    /\ last_alert = <<>>
    /\ clock = 0
    /\ status = [kind |-> "none"]
    /\ dq_call = [op |-> "none"]
    /\ alert_log = <<>>

NextDQ ==
    \/ Evaluate
    \/ ClockTick

SpecDQ == InitDQ /\ [][NextDQ]_vars

InitTf ==
    /\ TrackerInit
    /\ StateInit
    /\ enabled \in BOOLEAN
    /\ last_alert = <<>>
    /\ clock \in ClockValues
    /\ status = [kind |-> "none"]
    /\ dq_call = [op |-> "none"]
    /\ alert_log = <<>>

NextTf == EvaluateOnce

SpecTf == InitTf /\ [][NextTf]_vars

\* the tasks of the process, each call running to completion
InitGS == TrackerInit /\ MonitorInit /\ StateInit

NextGS ==
    \/ GetGlobalState
    \/ LossCluster
    \/ RecordVia
    \/ SetMode

SpecGS == InitGS /\ [][NextGS]_vars

(***************************************************************************)
(* Properties of LossClusterTracker                                        *)
(***************************************************************************)

\* C1: once a recorded loss has brought the retained count to pause_losses,
\* should_pause() is true at every clock value before that loss's timestamp
\* plus cooldown and false at that instant and after it; the triggering loss
\* is the latest one that reached the count.
C1_PauseUntilCooldown ==
    /\ Len(losses) >= pause_losses => trigger # None
    /\ trigger # None =>
         /\ should_pause <=> utcnow < trigger + cooldown_minutes
         /\ call.op = "should_pause" =>
              call.ret = (IF utcnow < trigger + cooldown_minutes THEN 1 ELSE 0)

\* the clock stands exactly at the expiry instant and should_pause() said False
C1_Witness ==
    /\ trigger # None
    /\ call.op = "should_pause"
    /\ utcnow = trigger + cooldown_minutes
    /\ call.ret = 0

\* C3: throttle_multiplier() is 0.25 when the retained count is at or above
\* throttle_losses (at or above pause_losses included), 1.0 otherwise, and
\* nothing else.
C3_ThrottleValue ==
    /\ throttle_multiplier \in {25, 100}
    /\ throttle_multiplier = 25 <=> Len(losses) >= throttle_losses
    /\ call.op = "throttle_multiplier" =>
         call.ret = (IF Len(losses) >= throttle_losses THEN 25 ELSE 100)

\* throttle_multiplier() returned 0.25 with exactly throttle_losses retained
C3_Witness ==
    /\ call.op = "throttle_multiplier"
    /\ Len(losses) = throttle_losses
    /\ call.ret = 25

\* C4: record_loss with pnl >= 0, with or without a timestamp, leaves the
\* retained events and the cooldown expiry unchanged.
C4_NonLossIsNoOp ==
    [][(call'.op = "record_loss" /\ call'.pnl >= 0)
         => (losses' = losses /\ cooldown_until' = cooldown_until)]_vars

\* record_loss(0) without a timestamp was called on a tracker in cooldown
C4_Witness ==
    /\ call.op = "record_loss"
    /\ call.pnl = 0
    /\ call.ts = None
    /\ Len(losses) >= 1
    /\ cooldown_until # None

\* C5 as stated: after a loss, once the clock is past window with no further
\* loss, no event is retained, should_pause() is False and the multiplier 1.0.
C5_Original ==
    (last_loss # None /\ utcnow - last_loss > window_minutes) =>
        /\ Len(losses) = 0
        /\ ~should_pause
        /\ throttle_multiplier = 100

\* C5 amended: a single loss recorded on a new tracker, then the clock
\* advanced past window with no further loss: that one event is still
\* retained, should_pause() is False and throttle_multiplier() is 1.0.
C5_SingleLossAfterWindow ==
    (recorded = 1 /\ utcnow - last_loss > window_minutes) =>
        /\ Len(losses) = 1
        /\ losses[1].ts = last_loss
        /\ ~should_pause
        /\ throttle_multiplier = 100
        /\ call.op = "should_pause" => call.ret = 0
        /\ call.op = "throttle_multiplier" => call.ret = 100

\* one loss, the clock past window, and throttle_multiplier() read afterwards
C5_Witness ==
    /\ recorded = 1
    /\ utcnow - last_loss > window_minutes
    /\ call.op = "throttle_multiplier"

\* C10: a record_loss call with pnl < 0 and timestamp ts sets the cooldown
\* expiry to exactly ts + cooldown when the count retained after pruning is at
\* or above pause_losses, and leaves it unchanged when the count is below.
C10_CooldownFromEvent ==
    [][(call'.op = "record_loss" /\ call'.pnl < 0 /\ recorded' = recorded + 1)
         => IF Len(losses') >= pause_losses
            THEN cooldown_until' = call'.eff + cooldown_minutes
            ELSE cooldown_until' = cooldown_until]_vars

\* the loss that brought the count to exactly pause_losses carried a timestamp
\* other than the clock, and replaced an expiry that was already set
C10_Witness ==
    /\ call.op = "record_loss"
    /\ call.pnl < 0
    /\ Len(losses) = pause_losses
    /\ call.eff # utcnow
    /\ recorded > pause_losses
    /\ cooldown_until = call.eff + cooldown_minutes

\* a step that is a record_loss call with pnl < 0
LossStep == call'.op = "record_loss" /\ call'.pnl < 0 /\ recorded' = recorded + 1

\* the retained sequence with the event of the step appended, before pruning
Appended == Append(losses, [ts |-> call'.eff, pnl |-> call'.pnl])

\* the number of events a loss step dropped from the left
Dropped == Len(Appended) - Len(losses')

\* a loss step keeps a suffix of what was there and drops, from the left,
\* only events older than window: one exactly window old stays
KeepsSuffix ==
    /\ Dropped >= 0
    /\ losses' = SubSeq(Appended, Dropped + 1, Len(Appended))
    /\ \A i \in 1..Dropped : call'.eff - Appended[i].ts > window_minutes

NonDecreasing(q) == \A i \in 1..(Len(q) - 1) : q[i].ts <= q[i + 1].ts

\* C11 as stated: after every record_loss call, whatever the order of the
\* timestamps supplied, no retained event is older than window relative to
\* the event just recorded, and one exactly window old is retained.
C11_Original ==
    [][LossStep =>
         /\ KeepsSuffix
         /\ \A i \in 1..Len(losses') : call'.eff - losses'[i].ts <= window_minutes]_vars

\* C11 amended: after every record_loss call the oldest-inserted retained
\* event is at most window older than the event just recorded (exactly window
\* old is retained, older is dropped from the left); every retained event is
\* within window of it whenever the retained timestamps are in non-decreasing
\* order, as they are when the callers supply them in that order.
C11_HeadWithinWindow ==
    [][LossStep =>
         /\ KeepsSuffix
         /\ call'.eff - losses'[1].ts <= window_minutes
         /\ NonDecreasing(losses') =>
              \A i \in 1..Len(losses') :
                  /\ call'.eff - losses'[i].ts <= window_minutes
                  /\ call'.eff - losses'[i].ts >= 0]_vars

\* a loss was recorded, an older event was dropped before, and the oldest
\* retained event is exactly window old
C11_Witness ==
    /\ call.op = "record_loss"
    /\ call.pnl < 0
    /\ recorded > Len(losses)
    /\ Len(losses) >= 2
    /\ NonDecreasing(losses)
    /\ call.eff - losses[1].ts = window_minutes

\* C12 as stated: with caller-supplied timestamps the cooldown expiry, once
\* set, is never reset to absent and never replaced by an earlier value.
C12_Original ==
    [][cooldown_until # None =>
         (cooldown_until' # None /\ cooldown_until' >= cooldown_until)]_vars

\* C12 amended: once set, the cooldown expiry is never reset to absent and is
\* changed by nothing but a record_loss call with pnl < 0; such a call whose
\* timestamp is not earlier than that of the loss that last set the expiry
\* never replaces it with an earlier value.
C12_ForwardWhenOrdered ==
    [][cooldown_until # None =>
         /\ cooldown_until' # None
         /\ ~LossStep => cooldown_until' = cooldown_until
         /\ (LossStep /\ call'.eff >= trigger) => cooldown_until' >= cooldown_until]_vars

\* four losses with nothing pruned, the fourth later than the third: the
\* third set the expiry and the fourth moved it forward
C12_Witness ==
    /\ call.op = "record_loss"
    /\ call.pnl < 0
    /\ recorded = 4
    /\ Len(losses) = 4
    /\ losses[4].ts > losses[3].ts
    /\ cooldown_until = losses[4].ts + cooldown_minutes

\* C13: should_pause() and throttle_multiplier() change neither the retained
\* events nor the cooldown expiry, at any clock value; nothing but record_loss
\* with pnl < 0 changes them.
C13_ReadsAreFrameFree ==
    [][/\ call'.op \in {"should_pause", "throttle_multiplier"} =>
            (losses' = losses /\ cooldown_until' = cooldown_until)
       /\ (losses' # losses \/ cooldown_until' # cooldown_until) => LossStep]_vars

\* should_pause() was called with an event older than window still retained
C13_Witness ==
    /\ call.op = "should_pause"
    /\ Len(losses) >= 1
    /\ utcnow - losses[1].ts > window_minutes

\* C18: with throttle_losses <= pause_losses, right after a record_loss call
\* that sets the cooldown expiry throttle_multiplier() is 0.25: a pause is
\* never armed with the multiplier at 1.0.
C18_ArmedImpliesThrottled ==
    [][(LossStep /\ trigger' = call'.eff /\ cooldown_until' = call'.eff + cooldown_minutes
          /\ Len(losses') >= pause_losses)
         => throttle_multiplier' = 25]_vars

\* a loss has just armed the pause: pause and throttle are both active
C18_Witness ==
    /\ throttle_losses <= pause_losses
    /\ call.op = "record_loss"
    /\ call.pnl < 0
    /\ trigger = call.eff
    /\ should_pause
    /\ throttle_multiplier = 25

(***************************************************************************)
(* Properties of DataQualityMonitor                                        *)
(***************************************************************************)

\* C2: with a clock that never goes back, any two evaluations of one key
\* that both returned alert=True are at least alert_interval_sec apart,
\* however many evaluations came between them.
C2_AlertsSpaced ==
    \A k \in DOMAIN alert_log :
        \A i, j \in 1..Len(alert_log[k]) :
            i < j => alert_log[k][j] - alert_log[k][i] >= alert_interval_sec

\* a key alerted twice and a later evaluation of it, still stale, was held back
C2_Witness ==
    /\ dq_call.op = "evaluate"
    /\ status.kind = "status"
    /\ status.stale
    /\ ~status.alert
    /\ Len(dq_call.prior) = 2

\* the clock value of the key's last alert before the call, None if it had none
PriorAlert == IF Len(dq_call.prior) = 0 THEN None ELSE dq_call.prior[Len(dq_call.prior)]

\* C6: of two stale evaluations of one key within alert_interval_sec the first,
\* the key never having alerted before, returns alert=True at any clock value
\* and the second alert=False; one made once alert_interval_sec has elapsed
\* since the first returns alert=True again.
C6_FirstAlertsThenRateLimited ==
    (dq_call.op = "evaluate" /\ status.kind = "status" /\ status.stale) =>
        (status.alert <=>
            (PriorAlert = None \/ clock - PriorAlert >= alert_interval_sec))

\* an integer (signed or not) followed by one of the units s, m, h, d
WellFormed(timeframe) ==
    /\ Len(timeframe) >= 2
    /\ timeframe[Len(timeframe)] \in {"s", "m", "h", "d"}
    /\ LET head == SubSeq(timeframe, 1, Len(timeframe) - 1)
           body == IF head[1] \in {"-", "+"} THEN Tail(head) ELSE head
       IN  /\ Len(body) > 0
           /\ \A i \in 1..Len(body) :
                  body[i] \in {"0", "1", "2", "3", "4", "5", "6", "7", "8", "9"}

\* C7: on an enabled monitor with at least 2 candles evaluate returns a status
\* for every timeframe string, the empty one included, and never fails; for a
\* string that is not an integer followed by s/m/h/d the gap and the stale
\* comparison both use 300,000 ms.
C7_MalformedTimeframeDefaults ==
    (dq_call.op = "evaluate" /\ enabled /\ dq_call.n >= 2) =>
        /\ status.kind = "status"
        /\ ~WellFormed(dq_call.timeframe) =>
             /\ dq_call.expected = 300000
             /\ status.gap <=> (10 * status.gap_ms > 14 * 300000)
             /\ status.stale <=>
                  (10 * (clock * 1000 - status.last_ts) > 20 * 300000)

\* C8: a disabled monitor, or a batch of fewer than 2 candles, makes evaluate
\* return None for every symbol and timeframe, without failing and without
\* changing the last-alert map.
C8_NoStatus ==
    [][(dq_call'.op = "evaluate" /\ (~enabled' \/ dq_call'.n < 2))
         => (status'.kind = "None" /\ last_alert' = last_alert)]_vars

\* an enabled monitor that has alerted before was given one candle and the
\* empty timeframe
C8_Witness ==
    /\ dq_call.op = "evaluate"
    /\ enabled
    /\ dq_call.n = 1
    /\ dq_call.timeframe = <<>>
    /\ DOMAIN last_alert # {}
    /\ status.kind = "None"

\* the (symbol, timeframe) pairs the monitor is called with
Pairs == Symbols \X Timeframes

\* the last-alert entry a pair's evaluation consults, None when it has none
EntryOf(pair) ==
    IF Key(pair[1], pair[2]) \in DOMAIN last_alert
    THEN last_alert[Key(pair[1], pair[2])]
    ELSE None

\* what evaluating each batch for the pair would return
AnswersOf(pair) == [ohlcv \in ShortBatches |-> Outcome(pair[1], pair[2], ohlcv).status]

\* C14: rate limiting is per (symbol, timeframe) pair: an evaluate call for
\* a pair A leaves the last-alert entry of every other pair B unchanged, and
\* leaves unchanged what an evaluation of B returns, alert flag included.
C14_PerPairRateLimit ==
    [][dq_call'.op = "evaluate" =>
         \A B \in Pairs :
             B # <<dq_call'.symbol, dq_call'.timeframe>> =>
                 /\ EntryOf(B)' = EntryOf(B)
                 /\ AnswersOf(B)' = AnswersOf(B)]_vars

\* the batch made of the last two candles of a batch
LastTwo(ohlcv) == SubSeq(ohlcv, Len(ohlcv) - 1, Len(ohlcv))

\* C15: for a batch of 2 or more candles evaluate returns, and leaves in the
\* last-alert map, what it would for the batch made of just the last two
\* candles, from the same monitor state at the same clock value: gaps earlier
\* in the batch are not looked at.
C15_OnlyLastTwoCandles ==
    [][(dq_call'.op = "evaluate" /\ dq_call'.n >= 2) =>
         LET out == Outcome(dq_call'.symbol, dq_call'.timeframe,
                            LastTwo(dq_call'.ohlcv))
         IN  /\ status' = out.status
             /\ last_alert' = out.map]_vars

\* three candles whose first interval is a gap and whose last is not were
\* evaluated, and no gap was reported
C15_Witness ==
    /\ dq_call.op = "evaluate"
    /\ dq_call.n = 3
    /\ status.kind = "status"
    /\ dq_call.expected > 0
    /\ 10 * (dq_call.ohlcv[2] - dq_call.ohlcv[1]) > 14 * dq_call.expected
    /\ status.gap_ms < dq_call.ohlcv[2] - dq_call.ohlcv[1]
    /\ ~status.gap

\* magnitude times 1000, 60000, 3600000 or 86400000 for the units s, m, h, d
UnitMs(unit) ==
    CASE unit = "s" -> 1000
      [] unit = "m" -> 60000
      [] unit = "h" -> 3600000
      [] unit = "d" -> 86400000
ExpectedIntervalMs(timeframe) ==
    IntValue(SubSeq(timeframe, 1, Len(timeframe) - 1)) * UnitMs(timeframe[Len(timeframe)])

\* C16: an enabled evaluation of at least 2 candles with a well-formed
\* timeframe returns gap = TRUE exactly when the last timestamp minus the one
\* before it is strictly greater than 1.4 times the expected interval, and
\* stale = TRUE exactly when now minus the last timestamp is strictly greater
\* than 2.0 times the expected interval, the expected interval being the
\* magnitude times the unit's milliseconds; candles at 0 and 100 with "1m"
\* give gap_ms = 100 and gap = FALSE.  (The expected interval is a multiple
\* of 10, so 1.4 times it is the integer below.)
C16_FlagsByStrictComparison ==
    (dq_call.op = "evaluate" /\ enabled /\ dq_call.n >= 2
        /\ WellFormed(dq_call.timeframe)) =>
        LET expected == ExpectedIntervalMs(dq_call.timeframe)
            last == dq_call.ohlcv[dq_call.n]
            prev == dq_call.ohlcv[dq_call.n - 1]
        IN  /\ status.kind = "status"
            /\ dq_call.expected = expected
            /\ status.gap_ms = last - prev
            /\ status.gap <=> (last - prev > (expected \div 10) * 14)
            /\ status.stale <=> (clock * 1000 - last > expected * 2)
            /\ (dq_call.timeframe = <<"1", "m">> /\ prev = 0 /\ last = 100) =>
                   (status.gap_ms = 100 /\ ~status.gap)

\* C17: a returned status has alert=True only if its gap or its stale flag
\* is true, and the last-alert map changes only in an evaluation that returns
\* alert=True, and then only at the key of that evaluation: a rate-limited
\* evaluation, or one with neither gap nor stale, leaves the whole map as it
\* was.
C17_AlertOnlyOnCauseMarkOnlyOnAlert ==
    [][/\ (status'.kind = "status" /\ status'.alert) =>
              (status'.gap \/ status'.stale)
       /\ last_alert' # last_alert =>
              /\ dq_call'.op = "evaluate"
              /\ status'.kind = "status"
              /\ status'.alert
              /\ DOMAIN last_alert' = DOMAIN last_alert \cup {dq_call'.key}
              /\ \A k \in DOMAIN last_alert :
                     k # dq_call'.key => last_alert'[k] = last_alert[k]]_vars

\* a stale evaluation was rate-limited some time after the key's alert, and
\* the key's entry still holds the time of that alert
C17_Witness ==
    /\ dq_call.op = "evaluate"
    /\ status.kind = "status"
    /\ status.stale
    /\ ~status.alert
    /\ PriorAlert # None
    /\ clock > PriorAlert
    /\ dq_call.key \in DOMAIN last_alert
    /\ last_alert[dq_call.key] = PriorAlert

(***************************************************************************)
(* Properties of GlobalState                                               *)
(***************************************************************************)
TrackersBuilt == {id \in Allocated : objects[id].type = "LossClusterTracker"}
StatesBuilt == {id \in Allocated : objects[id].type = "GlobalState"}

\* C9: with every call running to completion, whatever the number of tasks
\* and the order of their calls, one GlobalState and one tracker are ever
\* constructed: every task holds the same state and the same tracker, and
\* every loss recorded through any task's reference is retained in the
\* tracker each other task holds.
C9_SingleTracker ==
    /\ Cardinality(StatesBuilt) <= 1
    /\ Cardinality(TrackersBuilt) <= 1
    /\ \A t \in Tasks : state_ref[t] # None => state_ref[t] = _state
    /\ \A t \in Tasks : lc_ref[t] # None =>
         /\ lc_ref[t] = objects[_state].loss_cluster
         /\ Len(objects[lc_ref[t]].losses) = via_refs

\* every task holds the tracker, and losses were recorded through them
C9_Witness ==
    /\ \A t \in Tasks : lc_ref[t] # None
    /\ via_refs >= 2

====
